---- MODULE Spec2Model ----
(***************************************************************************)
(* Model of the Battleship session engine of rusty-ship,                   *)
(* src/src/services/battleship.rs: the GameState behind a tokio Mutex,     *)
(* the bounded event channel with its consumer task, and the handlers      *)
(* register_player, remove_player and place_ship.                          *)
(*                                                                         *)
(* Each in-flight RPC is a task; a task's pc is the await point at which   *)
(* its handler is suspended.  The code between two await points of a       *)
(* handler is one action.                                                  *)
(***************************************************************************)
EXTENDS Integers, Sequences, FiniteSets, TLC

\* ---------------------------------------------------------------- constants
BOARD_SIZE == 10
CARRIER_LENGTH == 5
BATTLESHIP_LENGTH == 4
CRUISER_LENGTH == 3
SUBMARINE_LENGTH == 3
DESTROYER_LENGTH == 2

\* ------------------------------------------------------------------- bounds
\* Capacity of the event channel.  The code creates it with channel(100);
\* the model keeps the capacity small so that the full channel is reached.
ChannelCapacity == 2

\* The in-flight RPCs: one per client connection of the two-player match.
Tasks == {"A", "B"}
\* The single connection used by the sequential placement specification.
FleetTasks == {"A"}

\* The value of `lock` while no MutexGuard is alive.
NoTask == "none"

\* Values of the Player / player_id fields of the requests.
PlayerIds == {"p1", "p2"}

\* ------------------------------------------------------------ data model
Coords == 0..(BOARD_SIZE - 1)

\* enum ShipType
ShipTypes == {"Carrier", "Battleship", "Cruiser", "Submarine", "Destroyer"}

\* The ship_type strings a client can send; "kayak" is not in the catalog.
TypeStrings == {"carrier", "battleship", "cruiser", "submarine", "destroyer", "kayak"}

\* match placement.ship_type.as_str() { ... }
ParseShipType(s) ==
    CASE s = "carrier"    -> "Carrier"
      [] s = "battleship" -> "Battleship"
      [] s = "cruiser"    -> "Cruiser"
      [] s = "submarine"  -> "Submarine"
      [] s = "destroyer"  -> "Destroyer"
      [] OTHER            -> "Invalid"

\* The length half of  match ship_type { ... => (X_LENGTH, ...) }
CatalogLength(ty) ==
    CASE ty = "Carrier"    -> CARRIER_LENGTH
      [] ty = "Battleship" -> BATTLESHIP_LENGTH
      [] ty = "Cruiser"    -> CRUISER_LENGTH
      [] ty = "Submarine"  -> SUBMARINE_LENGTH
      [] ty = "Destroyer"  -> DESTROYER_LENGTH

\* The index half of  match ship_type { ... => (..., &mut player_state.ships[i]) }
ShipIndex(ty) ==
    CASE ty = "Carrier"    -> 0
      [] ty = "Battleship" -> 1
      [] ty = "Cruiser"    -> 2
      [] ty = "Submarine"  -> 3
      [] ty = "Destroyer"  -> 4

\* PlayerState::new(id)
PlayerStateNew(id) == [id |-> id, ships |-> <<>>, guesses |-> <<>>]

\* [[CellState::Empty; BOARD_SIZE]; BOARD_SIZE]
EmptyBoard == [c \in Coords \X Coords |-> "Empty"]

\* [[None; BOARD_SIZE]; BOARD_SIZE]
EmptyPositions == [c \in Coords \X Coords |-> "None"]

\* HashMap::new()
EmptyMap == [k \in {} |-> 0]

\* HashMap::insert
MapInsert(m, k, v) == [x \in DOMAIN m \cup {k} |-> IF x = k THEN v ELSE m[x]]

\* Vec::contains
Contains(v, x) == \E i \in 1..Len(v) : v[i] = x

\* ------------------------------------------------------------ client input
\* A ShipPlacement message.
Placement(p, s, cells) == [player_id |-> p, ship_type |-> s, cells |-> cells]

NoMsg == Placement("", "", <<>>)

\* n cells in a row, starting at the left edge of row y.
Run(y, n) == [i \in 1..n |-> <<i - 1, y>>]

\* Every ship type is sent on a row of its own, so the placements of a
\* fleet do not overlap.
TypeRow(s) ==
    CASE s = "carrier"    -> 0
      [] s = "battleship" -> 1
      [] s = "cruiser"    -> 2
      [] s = "submarine"  -> 3
      [] s = "destroyer"  -> 4
      [] OTHER            -> 5

\* The cell counts a client sends for a type string: the catalog length and
\* one cell less.
CellCounts(s) ==
    IF ParseShipType(s) = "Invalid"
    THEN {DESTROYER_LENGTH}
    ELSE {CatalogLength(ParseShipType(s)), CatalogLength(ParseShipType(s)) - 1}

\* Messages of the sequential placement specification.
FleetMsgs ==
    {Placement(p, s, Run(TypeRow(s), n)) :
        <<p, s, n>> \in {x \in PlayerIds \X TypeStrings \X (1..CARRIER_LENGTH) :
                            x[3] \in CellCounts(x[2])}}

\* Messages of the concurrent specification.
ConcMsgs == {m \in FleetMsgs : m.ship_type \in {"carrier", "kayak"}
                                /\ Len(m.cells) \in {CARRIER_LENGTH, DESTROYER_LENGTH}}

\* The message of the specification with fairness.
LiveMsgs == {m \in ConcMsgs : m.player_id = "p1" /\ m.ship_type = "carrier"}

\* What stream.next() can yield: a message, the end of the stream, or a
\* transport error.
StreamItems(msgs) ==
    {[kind |-> "msg", msg |-> m] : m \in msgs}
        \cup {[kind |-> "end", msg |-> NoMsg], [kind |-> "err", msg |-> NoMsg]}

\* A placement that satisfies the catalog: known type and catalog length.
CatalogValid(m) ==
    /\ ParseShipType(m.ship_type) # "Invalid"
    /\ Len(m.cells) = CatalogLength(ParseShipType(m.ship_type))

\* ------------------------------------------------------------------- state
VARIABLES
    pc,               \* task -> await point of its handler
    lock,             \* GameState.inner: the task holding the guard, or NoTask
    waiters,          \* the tasks suspended in lock().await, oldest first
    board,            \* GameStateInner.board
    ships_remaining,  \* GameStateInner.ships_remaining
    ship_positions,   \* GameStateInner.ship_positions
    ship_cells,       \* GameStateInner.ship_cells
    remaining_ships,  \* GameStateInner.remaining_ships
    turn,             \* GameStateInner.turn
    events,           \* the channel between events_tx and events_rx
    rx_open,          \* events_rx is alive: the consumer task is running
    player,           \* task -> local `player` of register/remove_player
    id,               \* task -> local `id` of register_player
    first_ship,       \* task -> local `first_ship` of place_ship
    player_state,     \* task -> local `player_state` of place_ship
    streamed,         \* task -> catalog-valid placements consumed from its stream
    entry_state,      \* task -> the GameStateInner found when the lock was taken
    result,           \* task -> response of its last call
    acked             \* <<player, type>> of the placements answered with Ok

vars == <<pc, lock, waiters, board, ships_remaining, ship_positions, ship_cells,
          remaining_ships, turn, events, rx_open, player, id, first_ship,
          player_state, streamed, entry_state, result, acked>>

\* The fields of GameStateInner other than the channel handle.
inner == <<board, ships_remaining, ship_positions, ship_cells, remaining_ships, turn>>

locals == <<player, id, first_ship, player_state, streamed, entry_state>>

\* The channel and its receiving end.
chan == <<events, rx_open>>

NoPlayerState == PlayerStateNew("")

\* BattleShipService::new
Init ==
    /\ pc = [t \in Tasks |-> "idle"]
    /\ lock = NoTask
    /\ waiters = <<>>
    /\ board = EmptyBoard
    /\ ships_remaining = EmptyMap
    /\ ship_positions = EmptyMap
    /\ ship_cells = EmptyMap
    /\ remaining_ships = <<>>
    /\ turn = "None"
    /\ events = <<>>
    /\ rx_open = TRUE
    /\ player = [t \in Tasks |-> ""]
    /\ id = [t \in Tasks |-> ""]
    /\ first_ship = [t \in Tasks |-> NoMsg]
    /\ player_state = [t \in Tasks |-> NoPlayerState]
    /\ streamed = [t \in Tasks |-> {}]
    /\ entry_state = [t \in Tasks |-> <<>>]
    /\ result = [t \in Tasks |-> "None"]
    /\ acked = {}

\* --------------------------------------------------------- synchronisation
\* A lock that is granted while another guard is alive.
LockFreeIgnoringHolder == TRUE

\* tokio::sync::Mutex::lock() completes only while no guard is alive.
LockFree == lock = NoTask

\* A lock that is handed to the task that started to wait last.
NextInLineNewest(t) == waiters # <<>> /\ waiters[Len(waiters)] = t

\* The lock is fair: lock().await completes in the order in which the
\* tasks started to wait.
NextInLine(t) == waiters # <<>> /\ Head(waiters) = t

\* A send that never waits for a free slot.
HasCapacityUnbounded(q) == Len(q) >= 0

\* Sender::send() completes only while the channel has a free slot.
HasCapacity(q) == Len(q) < ChannelCapacity

\* A send that puts the event in front of the waiting ones.
EnqueueInFront(q, e) == <<e>> \o q

\* Sender::send(): the event becomes the newest of the channel.
Enqueue(q, e) == Append(q, e)

\* A receive that takes the newest event.
DequeueNewest(q) == SubSeq(q, 1, Len(q) - 1)

\* Receiver::recv(): the oldest event leaves the channel.
Dequeue(q) == Tail(q)

\* An event that carries a fixed player instead of the one of the request.
EventOfFixedPlayer(kind, p) == [kind |-> kind, player |-> "p1"]

\* Event::PlayerJoined(player) / Event::PlayerLeft(player)
Event(kind, p) == [kind |-> kind, player |-> p]

\* The handler returns r (or unwinds): its locals and the MutexGuard are
\* dropped.
Return(t, r) ==
    /\ pc' = [pc EXCEPT ![t] = "idle"]
    /\ result' = [result EXCEPT ![t] = r]
    /\ player' = [player EXCEPT ![t] = ""]
    /\ id' = [id EXCEPT ![t] = ""]
    /\ first_ship' = [first_ship EXCEPT ![t] = NoMsg]
    /\ player_state' = [player_state EXCEPT ![t] = NoPlayerState]
    /\ streamed' = [streamed EXCEPT ![t] = {}]
    /\ entry_state' = [entry_state EXCEPT ![t] = <<>>]

\* ------------------------------------------------------- register_player
\* A client calls register_player(p): lines 139-141, up to lock().await.
\* Uuid::new_v4() is a random identifier: any of the ids.
RegisterCall(t, p) ==
    /\ pc[t] = "idle"
    /\ pc' = [pc EXCEPT ![t] = "reg_lock"]
    /\ player' = [player EXCEPT ![t] = p]
    /\ \E u \in PlayerIds : id' = [id EXCEPT ![t] = u]
    /\ waiters' = Append(waiters, t)
    /\ result' = [result EXCEPT ![t] = "None"]
    /\ UNCHANGED <<lock, inner, chan, first_ship, player_state, streamed,
                   entry_state, acked>>

\* line 142: lock().await completes.
RegisterLock(t) ==
    /\ pc[t] = "reg_lock"
    /\ LockFree
    /\ NextInLine(t)
    /\ lock' = t
    /\ waiters' = Tail(waiters)
    /\ pc' = [pc EXCEPT ![t] = "reg_send"]
    /\ UNCHANGED <<inner, chan, locals, result, acked>>

\* lines 143-148: send(PlayerJoined).await completes, Ok is returned and the
\* guard is dropped.  On a closed channel send() is an Err and unwrap()
\* aborts the handler; the guard is dropped by the unwinding.
RegisterSend(t) ==
    /\ pc[t] = "reg_send"
    /\ IF rx_open
       THEN /\ HasCapacity(events)
            /\ events' = Enqueue(events, Event("PlayerJoined", player[t]))
            /\ Return(t, "Ok")
       ELSE /\ UNCHANGED events
            /\ Return(t, "Panic")
    /\ lock' = NoTask
    /\ UNCHANGED <<waiters, inner, rx_open, acked>>

\* --------------------------------------------------------- remove_player
\* A client calls remove_player(p): line 152, up to lock().await.
RemoveCall(t, p) ==
    /\ pc[t] = "idle"
    /\ pc' = [pc EXCEPT ![t] = "rem_lock"]
    /\ player' = [player EXCEPT ![t] = p]
    /\ waiters' = Append(waiters, t)
    /\ result' = [result EXCEPT ![t] = "None"]
    /\ UNCHANGED <<lock, inner, chan, id, first_ship, player_state, streamed,
                   entry_state, acked>>

\* line 153: lock().await completes.
RemoveLock(t) ==
    /\ pc[t] = "rem_lock"
    /\ LockFree
    /\ NextInLine(t)
    /\ lock' = t
    /\ waiters' = Tail(waiters)
    /\ pc' = [pc EXCEPT ![t] = "rem_send"]
    /\ UNCHANGED <<inner, chan, locals, result, acked>>

\* lines 154-159: send(PlayerLeft).await completes, Ok is returned and the
\* guard is dropped.  On a closed channel send() is an Err and unwrap()
\* aborts the handler; the guard is dropped by the unwinding.
RemoveSend(t) ==
    /\ pc[t] = "rem_send"
    /\ IF rx_open
       THEN /\ HasCapacity(events)
            /\ events' = Enqueue(events, Event("PlayerLeft", player[t]))
            /\ Return(t, "Ok")
       ELSE /\ UNCHANGED events
            /\ Return(t, "Panic")
    /\ lock' = NoTask
    /\ UNCHANGED <<waiters, inner, rx_open, acked>>

\* -------------------------------------------------------- consumer task
\* lines 111-128: events_rx.recv().await yields the oldest event, which is
\* printed.
EventConsumer ==
    /\ rx_open
    /\ events # <<>>
    /\ events' = Dequeue(events)
    /\ UNCHANGED <<pc, lock, waiters, inner, rx_open, locals, result, acked>>

\* lines 112-126: println! panics when stdout cannot be written: the
\* consumer task ends while it handles an event, events_rx is dropped and
\* with it the events still in the channel.
EventConsumerAbort ==
    /\ rx_open
    /\ events # <<>>
    /\ events' = <<>>
    /\ rx_open' = FALSE
    /\ UNCHANGED <<pc, lock, waiters, inner, locals, result, acked>>

\* ------------------------------------------------------------ place_ship
\* A client opens a placement stream: line 166, up to stream.next().await.
PlaceShipCall(t) ==
    /\ pc[t] = "idle"
    /\ pc' = [pc EXCEPT ![t] = "ps_first"]
    /\ result' = [result EXCEPT ![t] = "None"]
    /\ UNCHANGED <<lock, waiters, inner, chan, locals, acked>>

\* lines 167-170: stream.next().await completes with item.
PlaceShipFirst(t, item) ==
    /\ pc[t] = "ps_first"
    /\ CASE item.kind = "msg" ->
              /\ first_ship' = [first_ship EXCEPT ![t] = item.msg]
              /\ streamed' = [streamed EXCEPT ![t] =
                    IF CatalogValid(item.msg)
                    THEN {<<item.msg.player_id, ParseShipType(item.msg.ship_type)>>}
                    ELSE {}]
              /\ pc' = [pc EXCEPT ![t] = "ps_lock"]
              /\ waiters' = Append(waiters, t)
              /\ UNCHANGED <<player, id, player_state, entry_state, result>>
         [] item.kind = "end" -> Return(t, "NoPlacement") /\ UNCHANGED waiters
         [] item.kind = "err" -> Return(t, "StreamError") /\ UNCHANGED waiters
    /\ UNCHANGED <<lock, inner, chan, acked>>

\* line 172: lock().await completes.
PlaceShipLock(t) ==
    /\ pc[t] = "ps_lock"
    /\ LockFree
    /\ NextInLine(t)
    /\ lock' = t
    /\ waiters' = Tail(waiters)
    /\ pc' = [pc EXCEPT ![t] = "ps_init"]
    /\ entry_state' = [entry_state EXCEPT ![t] = inner]
    /\ UNCHANGED <<inner, chan, player, id, first_ship, player_state, streamed,
                   result, acked>>

\* lines 173-189: the lookup of the player id and, for an id not seen
\* before, the first half of the closure: ships_remaining and
\* remaining_ships are filled.  ship_positions is declared as a grid but
\* used as a map keyed by the player id; it is modelled as that map.  No
\* code adds to PlayerState.ships, so the value found for a known id has
\* no ships either.
PlaceShipLookup(t) ==
    LET player_id == first_ship[t].player_id IN
    /\ pc[t] = "ps_init"
    /\ IF player_id \in DOMAIN ship_positions
       THEN /\ player_state' = [player_state EXCEPT ![t] = PlayerStateNew(player_id)]
            /\ pc' = [pc EXCEPT ![t] = "ps_loop"]
            /\ UNCHANGED <<ships_remaining, remaining_ships>>
       ELSE /\ ships_remaining' = [ty \in DOMAIN ships_remaining \cup ShipTypes |-> 1]
            /\ remaining_ships' = remaining_ships \o
                  <<"Carrier", "Battleship", "Cruiser", "Submarine", "Destroyer">>
            /\ pc' = [pc EXCEPT ![t] = "ps_create"]
            /\ UNCHANGED player_state
    /\ UNCHANGED <<lock, waiters, board, ship_positions, ship_cells, turn, chan,
                   player, id, first_ship, streamed, entry_state, result, acked>>

\* lines 190-202: the second half of the closure: the ship_positions and
\* ship_cells entries and the new PlayerState.
PlaceShipCreate(t) ==
    LET player_id == first_ship[t].player_id IN
    /\ pc[t] = "ps_create"
    /\ ship_positions' = MapInsert(ship_positions, player_id, EmptyPositions)
    /\ ship_cells' = [ty \in DOMAIN ship_cells \cup ShipTypes |-> <<>>]
    /\ player_state' = [player_state EXCEPT ![t] = PlayerStateNew(player_id)]
    /\ pc' = [pc EXCEPT ![t] = "ps_loop"]
    /\ UNCHANGED <<lock, waiters, board, ships_remaining, remaining_ships, turn,
                   chan, player, id, first_ship, streamed, entry_state, result,
                   acked>>

\* lines 207-228: the body of the loop for one placement.  Indexing
\* player_state.ships beyond its length aborts the handler.
LoopOutcome(m, remaining, ps) ==
    LET ship_type == ParseShipType(m.ship_type) IN
    IF ship_type = "Invalid" THEN "InvalidShipType"
    ELSE IF ~Contains(remaining, ship_type) THEN "DuplicateShipType"
    ELSE IF ShipIndex(ship_type) >= Len(ps.ships) THEN "Panic"
    ELSE "Continue"

\* lines 204-230: the next element of the stream is taken while the guard
\* is alive.  A message runs the loop body; the end of the stream returns
\* Ok; an error of the stream is returned.
PlaceShipLoop(t, item) ==
    /\ pc[t] = "ps_loop"
    /\ CASE item.kind = "msg" ->
              LET out == LoopOutcome(item.msg, remaining_ships, player_state[t]) IN
              IF out = "Continue"
              THEN /\ streamed' = [streamed EXCEPT ![t] =
                         IF CatalogValid(item.msg)
                         THEN @ \cup {<<item.msg.player_id, ParseShipType(item.msg.ship_type)>>}
                         ELSE @]
                   /\ UNCHANGED <<pc, lock, player, id, first_ship, player_state,
                                  entry_state, result, acked>>
              ELSE /\ Return(t, out)
                   /\ lock' = NoTask
                   /\ UNCHANGED acked
         [] item.kind = "end" ->
              /\ Return(t, "Ok")
              /\ lock' = NoTask
              /\ acked' = acked \cup streamed[t]
         [] item.kind = "err" ->
              /\ Return(t, "StreamError")
              /\ lock' = NoTask
              /\ UNCHANGED acked
    /\ UNCHANGED <<waiters, inner, chan>>

\* ------------------------------------------------------------ make_guess
\* The coordinates a client guesses: two corners of the board.
GuessCells == {<<0, 0>>, <<BOARD_SIZE - 1, BOARD_SIZE - 1>>}

\* A Guess message.
Guesses == [player_id : PlayerIds, cell : GuessCells]

\* lines 233-235: the body is todo!(), which aborts the handler whatever
\* the guess; no state is read or written.
MakeGuess(t, g) ==
    /\ pc[t] = "idle"
    /\ g \in Guesses
    /\ Return(t, "Panic")
    /\ UNCHANGED <<lock, waiters, inner, chan, acked>>

\* -------------------------------------------------------- get_game_state
\* lines 237-239: the body is todo!(), which aborts the handler; no view is
\* returned.
GetGameState(t, p) ==
    /\ pc[t] = "idle"
    /\ p \in PlayerIds
    /\ Return(t, "Panic")
    /\ UNCHANGED <<lock, waiters, inner, chan, acked>>

\* --------------------------------------------------------- specifications
\* Concurrent calls of all three handlers and the consumer task.
Next ==
    \/ \E t \in Tasks, p \in PlayerIds : RegisterCall(t, p)
    \/ \E t \in Tasks : RegisterLock(t)
    \/ \E t \in Tasks : RegisterSend(t)
    \/ \E t \in Tasks, p \in PlayerIds : RemoveCall(t, p)
    \/ \E t \in Tasks : RemoveLock(t)
    \/ \E t \in Tasks : RemoveSend(t)
    \/ EventConsumer
    \/ \E t \in Tasks : PlaceShipCall(t)
    \/ \E t \in Tasks, item \in StreamItems(ConcMsgs) : PlaceShipFirst(t, item)
    \/ \E t \in Tasks : PlaceShipLock(t)
    \/ \E t \in Tasks : PlaceShipLookup(t)
    \/ \E t \in Tasks : PlaceShipCreate(t)
    \/ \E t \in Tasks, item \in StreamItems(ConcMsgs) : PlaceShipLoop(t, item)

Spec == Init /\ [][Next]_vars

\* Calls made one after the other on one connection: placement streams
\* with the full set of messages, guesses and state queries.
FleetNext ==
    \/ \E t \in FleetTasks, g \in Guesses : MakeGuess(t, g)
    \/ \E t \in FleetTasks, p \in PlayerIds : GetGameState(t, p)
    \/ \E t \in FleetTasks : PlaceShipCall(t)
    \/ \E t \in FleetTasks, item \in StreamItems(FleetMsgs) : PlaceShipFirst(t, item)
    \/ \E t \in FleetTasks : PlaceShipLock(t)
    \/ \E t \in FleetTasks : PlaceShipLookup(t)
    \/ \E t \in FleetTasks : PlaceShipCreate(t)
    \/ \E t \in FleetTasks, item \in StreamItems(FleetMsgs) : PlaceShipLoop(t, item)

SpecFleet == Init /\ [][FleetNext]_vars

\* The concurrent calls, with a consumer task that can end.
ClosedNext == Next \/ EventConsumerAbort

SpecClosed == Init /\ [][ClosedNext]_vars

\* The steps a handler takes without input of its client.
Progress(t) ==
    \/ RegisterLock(t)
    \/ RegisterSend(t)
    \/ RemoveLock(t)
    \/ RemoveSend(t)
    \/ PlaceShipLock(t)
    \/ PlaceShipLookup(t)
    \/ PlaceShipCreate(t)

\* The runtime polls every task that can make progress: the consumer task
\* and every handler that is not waiting for its client.
Fairness ==
    /\ WF_vars(EventConsumer)
    /\ \A t \in Tasks : WF_vars(Progress(t))

\* The concurrent calls with one placement message.
LiveNext ==
    \/ \E t \in Tasks, p \in PlayerIds : RegisterCall(t, p)
    \/ \E t \in Tasks : RegisterLock(t)
    \/ \E t \in Tasks : RegisterSend(t)
    \/ \E t \in Tasks, p \in PlayerIds : RemoveCall(t, p)
    \/ \E t \in Tasks : RemoveLock(t)
    \/ \E t \in Tasks : RemoveSend(t)
    \/ EventConsumer
    \/ \E t \in Tasks : PlaceShipCall(t)
    \/ \E t \in Tasks, item \in StreamItems(LiveMsgs) : PlaceShipFirst(t, item)
    \/ \E t \in Tasks : PlaceShipLock(t)
    \/ \E t \in Tasks : PlaceShipLookup(t)
    \/ \E t \in Tasks : PlaceShipCreate(t)
    \/ \E t \in Tasks, item \in StreamItems(LiveMsgs) : PlaceShipLoop(t, item)

SpecFair == Init /\ [][LiveNext]_vars /\ Fairness

TypeOK ==
    /\ pc \in [Tasks -> {"idle", "reg_lock", "reg_send", "rem_lock", "rem_send",
                         "ps_first", "ps_lock", "ps_init", "ps_create", "ps_loop"}]
    /\ lock \in {NoTask} \cup Tasks
    /\ Len(events) >= 0

\* ------------------------------------------------------------------ claims
Msg(m) == [kind |-> "msg", msg |-> m]

\* The task is between lock().await and the drop of its MutexGuard.
InCriticalSection(t) ==
    pc[t] \in {"reg_send", "rem_send", "ps_init", "ps_create", "ps_loop"}

\* The task is suspended in lock().await.
AwaitingLock(t) == pc[t] \in {"reg_lock", "rem_lock", "ps_lock"}

\* The task is suspended waiting for the next message of its client.
AwaitingClient(t) == pc[t] \in {"ps_first", "ps_loop"}

\* GameStateInner as it is between two operations: every known player id
\* has contributed its five entries of remaining_ships, and the per-type
\* maps are filled as soon as one id is known.
InnerComplete ==
    /\ Len(remaining_ships) = 5 * Cardinality(DOMAIN ship_positions)
    /\ DOMAIN ship_cells = (IF DOMAIN ship_positions = {} THEN {} ELSE ShipTypes)
    /\ DOMAIN ships_remaining = DOMAIN ship_cells

OccupiedCells == {c \in Coords \X Coords : board[c] = "Occupied"}

\* C1: at most one call is inside its critical section on GameStateInner
\* at any time, and a call that has just taken the lock, or has finished
\* its own update, never sees the half-done update of another call.
C1_MutualExclusion ==
    /\ \A t, u \in Tasks : t # u => ~(InCriticalSection(t) /\ InCriticalSection(u))
    /\ \A t \in Tasks :
          (InCriticalSection(t) /\ pc[t] # "ps_create") => InnerComplete

\* Two calls contend: one is in the middle of its update of GameStateInner
\* while the other waits for the lock.
C1_Witness ==
    \E t, u \in Tasks : t # u /\ pc[t] = "ps_create" /\ AwaitingLock(u)

\* C2: no operation holds the GameState lock while it is suspended waiting
\* for the next client message.
C2_NoLockWhileAwaitingClient ==
    \A t \in Tasks : AwaitingClient(t) => lock # t

\* C3: place_ship takes the lock per message: while A's stream is idle
\* between two messages, A does not keep the lock from B, whose placement
\* has arrived and waits to be processed.
C3_LockPerMessage ==
    \A a, b \in Tasks :
        (a # b /\ pc[a] = "ps_loop" /\ pc[b] = "ps_lock") => lock # a

C5_FirstMessageValidated ==
    [][ \A t \in Tasks :
           (pc[t] = "ps_loop" /\ result'[t] = "Ok")
               => /\ ParseShipType(first_ship[t].ship_type) # "Invalid"
                  /\ \A i \in 1..Len(first_ship[t].cells) :
                        board'[first_ship[t].cells[i]] = "Occupied"
      ]_vars

\* C6: a placement of a type the player has already placed is rejected
\* with DuplicateShipType and leaves GameStateInner as it was.
C6_DuplicateRejected ==
    [][ \A t \in Tasks, m \in FleetMsgs :
           (/\ PlaceShipLoop(t, Msg(m))
            /\ <<m.player_id, ParseShipType(m.ship_type)>> \in acked)
               => (result'[t] = "DuplicateShipType" /\ inner' = inner)
      ]_vars

\* C7: a placement with a type outside the catalog is rejected with
\* InvalidShipType, and GameStateInner is then what it was when the call
\* began.
C7_InvalidTypeLeavesState ==
    [][ \A t \in Tasks, m \in FleetMsgs :
           (PlaceShipLoop(t, Msg(m)) /\ ParseShipType(m.ship_type) = "Invalid")
               => (result'[t] = "InvalidShipType" /\ inner' = entry_state[t])
      ]_vars

\* C8: a placement of a catalog type, not placed before, whose number of
\* cells differs from the catalog length is rejected with WrongLength.
C8_WrongLengthRejected ==
    [][ \A t \in Tasks, m \in FleetMsgs :
           (/\ PlaceShipLoop(t, Msg(m))
            /\ ParseShipType(m.ship_type) # "Invalid"
            /\ <<m.player_id, ParseShipType(m.ship_type)>> \notin acked
            /\ Len(m.cells) # CatalogLength(ParseShipType(m.ship_type)))
               => (result'[t] = "WrongLength" /\ inner' = inner)
      ]_vars

\* C9: after a placement that passes all validations its cells are
\* Occupied, the ship is recorded under its type and the type is no longer
\* available.
C9_PlacementCommitted ==
    [][ \A t \in Tasks, m \in FleetMsgs :
           (/\ PlaceShipLoop(t, Msg(m))
            /\ CatalogValid(m)
            /\ <<m.player_id, ParseShipType(m.ship_type)>> \notin acked)
               => /\ \A i \in 1..Len(m.cells) : board'[m.cells[i]] = "Occupied"
                  /\ ship_cells'[ParseShipType(m.ship_type)] = m.cells
                  /\ ~Contains(remaining_ships', ParseShipType(m.ship_type))
      ]_vars

\* C10: once a player has had a valid placement of each of the five types
\* accepted, 17 cells are Occupied.
C10_FleetOccupies17 ==
    \A p \in PlayerIds :
        (\A ty \in ShipTypes : <<p, ty>> \in acked)
            => Cardinality(OccupiedCells) = 17

\* The cells of the catalog-valid placement of type ty that a client sends.
PlacedCells(ty) ==
    CASE ty = "Carrier"    -> Run(TypeRow("carrier"), CARRIER_LENGTH)
      [] ty = "Battleship" -> Run(TypeRow("battleship"), BATTLESHIP_LENGTH)
      [] ty = "Cruiser"    -> Run(TypeRow("cruiser"), CRUISER_LENGTH)
      [] ty = "Submarine"  -> Run(TypeRow("submarine"), SUBMARINE_LENGTH)
      [] ty = "Destroyer"  -> Run(TypeRow("destroyer"), DESTROYER_LENGTH)

\* C11: when a stream ends with an error on a later message, the valid
\* placements of its earlier messages are still recorded: their cells are
\* Occupied and the ships are kept under their types.
C11_EarlierPlacementsKept ==
    [][ \A t \in Tasks :
           (/\ pc[t] = "ps_loop"
            /\ pc'[t] = "idle"
            /\ result'[t] \in {"InvalidShipType", "DuplicateShipType", "WrongLength"})
               => \A pt \in streamed[t] :
                     /\ ship_cells'[pt[2]] = PlacedCells(pt[2])
                     /\ \A i \in 1..Len(PlacedCells(pt[2])) :
                           board'[PlacedCells(pt[2])[i]] = "Occupied"
      ]_vars

\* Both players have had a valid placement of each of the five types
\* accepted.
BothFleetsComplete == acked = PlayerIds \X ShipTypes

\* C12: the turn pointer is None until both players have placed all five
\* ship types, and names one of the two players once they have.
C12_TurnAssignedAfterSetup ==
    /\ ~BothFleetsComplete => turn = "None"
    /\ BothFleetsComplete => turn \in PlayerIds

\* C13: while the match is in progress a guess is either accepted, and is
\* then the guess of the turn holder and passes the turn to the other
\* player, or it is rejected with NotYourTurn without any change of state;
\* so of two guesses made against the same turn pointer exactly one is
\* accepted.
C13_TurnsAlternate ==
    [][ \A t \in Tasks, g \in Guesses :
           (MakeGuess(t, g) /\ BothFleetsComplete)
               => \/ /\ result'[t] = "Ok"
                     /\ turn = g.player_id
                     /\ turn' \in PlayerIds \ {g.player_id}
                  \/ /\ result'[t] = "NotYourTurn"
                     /\ turn # g.player_id
                     /\ inner' = inner
      ]_vars

\* C16: a publish on the closed channel ends the call with an
\* internal-error response, leaves GameStateInner as it was and releases
\* the lock.
C16_ClosedChannelIsInternalError ==
    [][ \A t \in Tasks :
           (pc[t] \in {"reg_send", "rem_send"} /\ ~rx_open /\ pc'[t] = "idle")
               => /\ result'[t] = "Internal"
                  /\ inner' = inner
                  /\ lock' = NoTask
      ]_vars

\* C17: when register_player returns, GameStateInner holds the state of
\* the returned id, and place_ship finds the state of the id it names
\* instead of creating it.
C17_RegistrationCreatesPlayer ==
    [][ \A t \in Tasks :
           /\ (pc[t] = "reg_send" /\ result'[t] = "Ok")
                 => id[t] \in DOMAIN ship_positions'
           /\ (pc[t] = "ps_init" /\ pc'[t] # "ps_init")
                 => first_ship[t].player_id \in DOMAIN ship_positions
      ]_vars

\* The task is suspended in send().await with the guard alive.
Publishing(t) == pc[t] \in {"reg_send", "rem_send"}

RegistrationStep(t) ==
    /\ pc'[t] # pc[t]
    /\ \/ pc[t] \in {"reg_lock", "reg_send", "rem_lock", "rem_send"}
       \/ pc'[t] \in {"reg_lock", "rem_lock"}

====
